---- MODULE Spec2Model ----
(***************************************************************************)
(* Alias settings on the account endpoint (GET/PUT /v1/account) of         *)
(* app/controllers/api/v1/users.js: actor resolution, body check,          *)
(* whitelist pick, archive-folder type check, field-level set, save and    *)
(* the account payload returned after a read and after an update.          *)
(***************************************************************************)
EXTENDS Integers, FiniteSets, Sequences, TLC

\* ------------------------------------------------------------------ bounds
\* an object body names at most MaxKeys keys
MaxKeys == 2

\* ------------------------------------------------------------ JS values
\* A JS value: its typeof-like tag, a string part, a number part and, for a
\* label map, its entries.  "absent" marks a key that is not on the object.
JS(ty, s, n, e) == [ty |-> ty, s |-> s, n |-> n, e |-> e]
Absent     == JS("absent", "", 0, {})
Undefined  == JS("undefined", "", 0, {})
Null       == JS("null", "", 0, {})
Str(s)     == JS("string", s, 0, {})
Num(n)     == JS("number", "", n, {})
Bool(b)    == JS("boolean", IF b THEN "true" ELSE "false", 0, {})
Map(e)     == JS("map", "", 0, e)

\* one entry of label_settings: keyword -> {name, color, hidden?}
Label(k, name, color, hidden) ==
    [k |-> k, name |-> name, color |-> color, hidden |-> hidden]

\* JS typeof
TypeOf(v) ==
    CASE v.ty = "undefined" -> "undefined"
      [] v.ty = "string"    -> "string"
      [] v.ty = "number"    -> "number"
      [] v.ty = "boolean"   -> "boolean"
      [] OTHER              -> "object"

\* JS truthiness (ToBoolean)
Truthy(v) ==
    CASE v.ty \in {"absent", "undefined", "null"} -> FALSE
      [] v.ty = "string"  -> v.s # ""
      [] v.ty = "number"  -> v.n # 0
      [] v.ty = "boolean" -> v.s = "true"
      [] OTHER            -> TRUE

\* ------------------------------------------------------------ field names
ALIAS_SETTINGS_FIELDS ==
    { "appearance_theme", "appearance_layout_mode", "compose_plain_default",
      "mail_messages_per_page", "mail_archive_folder", "search_body_indexing",
      "search_saved_searches", "prefetch_enabled", "prefetch_folders",
      "prefetch_mode", "shortcuts", "label_settings",
      "security_remember_passphrase", "aliases_defaults" }

\* top-level keys a body may carry that are not settings fields
UnknownKeys == { "email" }

AllKeys == ALIAS_SETTINGS_FIELDS \cup UnknownKeys

NoFields == [k \in AllKeys |-> Absent]

\* ------------------------------------------------------------ label maps
LabelsWork   == Map({ Label("work", "Work", "#33AADD", "absent") })
LabelsWork2  == Map({ Label("work", "Work", "#112233", "true") })
LabelsTeam   == Map({ Label("team", "Team", "#00AA00", "absent") })
LabelsEmpty  == Map({})

LabelKeys(v) == { l.k : l \in v.e }

\* ------------------------------------------------------------ inputs
\* candidate values of the keys a request body may carry
Candidates(k) ==
    CASE k = "appearance_theme"       -> { Str("dark"), Str("neon") }
      [] k = "mail_messages_per_page" -> { Num(30), Num(50), Num(100) }
      [] k = "mail_archive_folder"    -> { Undefined, Null, Str("Archive"),
                                           Num(12345) }
      [] k = "search_body_indexing"   -> { Bool(TRUE), Bool(FALSE) }
      [] k = "label_settings"         -> { LabelsEmpty, LabelsWork, LabelsWork2,
                                           LabelsTeam, Str("not-an-object") }
      [] k = "email"                  -> { Str("new@example.com") }
      [] OTHER                        -> {}

\* a request body: a scalar, an array, or an object with fields f
Body(ty, s, n, f) == [ty |-> ty, s |-> s, n |-> n, f |-> f]
ObjBody(f) == Body("object", "", 0, f)
NoBody     == Body("undefined", "", 0, NoFields)

BodyKeys(b) == { k \in AllKeys : b.f[k] # Absent }

\* the keys request bodies are drawn over
PayloadKeys == { k \in AllKeys : Candidates(k) # {} }

FieldsOver(K) ==
    { [k \in AllKeys |-> IF k \in K THEN g[k] ELSE Absent] :
        g \in { h \in [K -> UNION { Candidates(k) : k \in K }] :
                  \A k \in K : h[k] \in Candidates(k) } }

ObjectBodies ==
    { ObjBody(f) : f \in UNION { FieldsOver(K) :
                       K \in { L \in SUBSET PayloadKeys :
                                 Cardinality(L) <= MaxKeys } } }

\* bodies that are not plain objects: truthy and falsy scalars, an array, null
ScalarBodies ==
    { Body("string", "x", 0, NoFields), Body("string", "", 0, NoFields),
      Body("number", "", 7, NoFields),  Body("number", "", 0, NoFields),
      Body("boolean", "true", 0, NoFields), Body("boolean", "false", 0, NoFields),
      Body("array", "", 0, NoFields), Body("null", "", 0, NoFields) }

BodyTruthy(b) ==
    CASE b.ty \in {"undefined", "null"} -> FALSE
      [] b.ty = "string"  -> b.s # ""
      [] b.ty = "number"  -> b.n # 0
      [] b.ty = "boolean" -> b.s = "true"
      [] OTHER            -> TRUE

BodyTypeOf(b) ==
    IF b.ty \in {"undefined", "string", "number", "boolean"} THEN b.ty
    ELSE "object"

\* ------------------------------------------------------------ sessions
ExistingId == "507f1f77bcf86cd799439011"
VanishedId == "507f1f77bcf86cd799439012"

\* ctx.state: session.db marks an alias session; user may be missing, and
\* user.alias_id may be missing ("") or malformed
Session(db, hasUser, aliasId) ==
    [db |-> db, hasUser |-> hasUser, alias_id |-> aliasId]

AliasSession == Session(TRUE, TRUE, ExistingId)
UserSession  == Session(FALSE, TRUE, "")

BadSessions ==
    { Session(TRUE, FALSE, ""), Session(TRUE, TRUE, ""),
      Session(TRUE, TRUE, "not-an-object-id"), Session(TRUE, TRUE, VanishedId) }

Sessions == { AliasSession, UserSession } \cup BadSessions

\* mongoose.isValidObjectId on the identifiers sessions carry
IsValidObjectId(id) == id \in { ExistingId, VanishedId }

\* what a request can be: every body under the alias session, a few bodies
\* under the other sessions
FewBodies ==
    { NoBody, ObjBody(NoFields),
      ObjBody([NoFields EXCEPT !["appearance_theme"] = Str("dark")]),
      ObjBody([NoFields EXCEPT !["email"] = Str("new@example.com")]),
      Body("string", "x", 0, NoFields), Body("null", "", 0, NoFields) }

PutInputs ==
    { <<AliasSession, b>> : b \in ObjectBodies \cup ScalarBodies \cup { NoBody } }
      \cup { <<s, b>> : s \in BadSessions \cup { UserSession }, b \in FewBodies }

\* bodies of the interleaved updates: objects over three of the fields
ConcKeys == { "appearance_theme", "search_body_indexing", "mail_messages_per_page" }

ConcBodies ==
    { ObjBody(f) : f \in UNION { FieldsOver(K) :
                       K \in { L \in SUBSET ConcKeys :
                                 L # {} /\ Cardinality(L) <= MaxKeys } } }

\* ------------------------------------------------------------ the Aliases model
\* the record a new alias is stored with: the schema's defaults
FreshAlias ==
    [k \in AllKeys |->
        CASE k = "appearance_theme"       -> Str("system")
          [] k = "appearance_layout_mode" -> Str("personal")
          [] k = "mail_messages_per_page" -> Num(50)
          [] k = "mail_archive_folder"    -> Null
          [] k = "search_body_indexing"   -> Bool(FALSE)
          [] OTHER                        -> Absent]

\* one label definition: a name, a color, an optional boolean hidden
LabelValid(l) ==
    /\ l.name # ""
    /\ l.color # ""
    /\ l.hidden \in { "absent", "true", "false" }

\* the schema's rule for a field's value
FieldValid(k, v) ==
    CASE k = "appearance_theme" ->
            v.ty = "string" /\ v.s \in { "system", "light", "dark" }
      [] k = "mail_messages_per_page" ->
            v.ty = "number" /\ v.n \in { 25, 50, 100 }
      [] k = "mail_archive_folder" ->
            v.ty \in { "null", "string" }
      [] k \in { "compose_plain_default", "search_body_indexing",
                 "prefetch_enabled", "security_remember_passphrase" } ->
            v.ty = "boolean"
      [] k = "label_settings" ->
            v.ty = "map" /\ \A l \in v.e : LabelValid(l)
      [] OTHER -> TRUE

\* ------------------------------------------------------------ state
Reqs == { 1, 2 }

VARIABLES
    stored,      \* the persisted alias record (ExistingId), field -> value
    userEmail,   \* the primary user's email
    pc,          \* per request: where its handler is suspended
    op,          \* per request: "GET" or "PUT"
    session,     \* per request: ctx.state
    body,        \* per request: ctx.request.body
    doc,         \* per request: the document findById returned, as set so far
    modified,    \* per request: the document's modified paths
    resp,        \* per request: the response
    before,      \* per request: the stored record as the request found it
    sets,        \* per request: the keys alias.set was called with
    calls,       \* per request: the persistence calls made
    lastSaved    \* the request whose save completed last (0: none)

vars == << stored, userEmail, pc, op, session, body, doc, modified, resp,
           before, sets, calls, lastSaved >>

Resp(status, error, kind, payload, email) ==
    [status |-> status, error |-> error, kind |-> kind, payload |-> payload,
     email |-> email]

NoResp == Resp(0, "", "", NoFields, "")

Fail(status, error) == Resp(status, error, "error", NoFields, "")

Init ==
    /\ stored = FreshAlias
    /\ userEmail = "owner@example.com"
    /\ pc = [r \in Reqs |-> "idle"]
    /\ op = [r \in Reqs |-> ""]
    /\ session = [r \in Reqs |-> UserSession]
    /\ body = [r \in Reqs |-> NoBody]
    /\ doc = [r \in Reqs |-> NoFields]
    /\ modified = [r \in Reqs |-> {}]
    /\ resp = [r \in Reqs |-> NoResp]
    /\ before = [r \in Reqs |-> FreshAlias]
    /\ sets = [r \in Reqs |-> {}]
    /\ calls = [r \in Reqs |-> {}]
    /\ lastSaved = 0

\* ------------------------------------------------------------ pure parts
\* pick without the whitelist: every key of the object is kept
pickAll(f, fields) == f

\* _.pick(object, fields) on an object's fields
pick(f, fields) == [k \in AllKeys |-> IF k \in fields THEN f[k] ELSE Absent]

\* the settings as picked, without the empty-map defaults
serializeNoDefaults(alias) == pick(alias, ALIAS_SETTINGS_FIELDS)

serializeAliasSettings(alias) ==
    LET settings == pick(alias, ALIAS_SETTINGS_FIELDS)
    IN  [k \in AllKeys |->
            IF k \in { "shortcuts", "label_settings", "aliases_defaults" }
               /\ ~Truthy(settings[k])
            THEN Map({})
            ELSE settings[k]]

\* the error getAliasContext throws, "" when it returns a context
getAliasContext(s) ==
    IF ~s.hasUser \/ s.alias_id = "" THEN "SETTINGS_ALIAS_AUTH_REQUIRED"
    ELSE IF ~IsValidObjectId(s.alias_id) THEN "SETTINGS_INVALID_ALIAS_ID"
    ELSE ""

\* body && typeof body !== 'object'
InvalidBody(b) == BodyTruthy(b) /\ BodyTypeOf(b) # "object"

\* the archive-folder check letting numbers through
ArchiveFolderNumbersPass(updates) ==
    LET v == updates["mail_archive_folder"]
    IN  /\ v # Absent
        /\ v # Null
        /\ v # Undefined
        /\ TypeOf(v) \notin { "string", "number" }

\* the mail_archive_folder check on the picked updates
ArchiveFolderInvalid(updates) ==
    LET v == updates["mail_archive_folder"]
    IN  /\ v # Absent
        /\ v # Null
        /\ v # Undefined
        /\ TypeOf(v) # "string"

\* the loop skipping every falsy value (if (!value) continue)
SetKeysTruthy(updates) == { k \in AllKeys : Truthy(updates[k]) }

\* the keys the loop calls alias.set with
SetKeys(updates) == { k \in AllKeys : updates[k] \notin { Absent, Undefined } }

\* the document after the loop
ApplySets(d, updates) ==
    [k \in AllKeys |-> IF k \in SetKeys(updates) THEN updates[k] ELSE d[k]]

\* the paths alias.set marks modified on the mongoose document: a path set to
\* the value it already has is not marked
ModifiedPaths(d, updates) == { k \in SetKeys(updates) : updates[k] # d[k] }

\* Aliases.findById(id): the stored record, or null (FALSE)
Exists(id) == id = ExistingId

\* save() merging the label map into the stored one instead of replacing it
WrittenMergeLabels(rec, d, mod) ==
    [k \in AllKeys |->
        IF k \notin mod THEN rec[k]
        ELSE IF k = "label_settings" /\ rec[k].ty = "map" /\ d[k].ty = "map"
        THEN Map(rec[k].e \cup d[k].e)
        ELSE d[k]]

\* save() writing the whole document, not its modified paths
WrittenWholeDoc(rec, d, mod) == d

\* what save() writes: the modified paths of the mongoose document, nothing
\* else of it
Written(rec, d, mod) == [k \in AllKeys |-> IF k \in mod THEN d[k] ELSE rec[k]]

\* save() validates the modified paths
DocValid(d, mod) == \A k \in mod : FieldValid(k, d[k])

AccountPayload(alias) == Resp(200, "", "alias", serializeAliasSettings(alias), "")

UserPayload(email) == Resp(200, "", "user", NoFields, email)

\* ------------------------------------------------------------ update
\* update(ctx), up to its first suspension: on an alias session
\* getAliasContext and the body check of updateAliasSettingsForContext, then
\* the await of findById; on a user session the user's fields are set and saved
BeginPut(r, s, b) ==
    /\ op' = [op EXCEPT ![r] = "PUT"]
    /\ session' = [session EXCEPT ![r] = s]
    /\ body' = [body EXCEPT ![r] = b]
    /\ doc' = [doc EXCEPT ![r] = NoFields]
    /\ modified' = [modified EXCEPT ![r] = {}]
    /\ before' = [before EXCEPT ![r] = stored]
    /\ sets' = [sets EXCEPT ![r] = {}]
    /\ calls' = [calls EXCEPT ![r] = {}]
    /\ UNCHANGED << stored, lastSaved >>
    /\ IF s.db
       THEN /\ UNCHANGED userEmail
            /\ IF getAliasContext(s) # ""
               THEN /\ pc' = [pc EXCEPT ![r] = "failed"]
                    /\ resp' = [resp EXCEPT ![r] = Fail(401, getAliasContext(s))]
               ELSE IF InvalidBody(b)
               THEN /\ pc' = [pc EXCEPT ![r] = "failed"]
                    /\ resp' = [resp EXCEPT ![r] = Fail(400, "INVALID_REQUEST_BODY")]
               ELSE /\ pc' = [pc EXCEPT ![r] = "find"]
                    /\ resp' = [resp EXCEPT ![r] = NoResp]
       ELSE IF b.ty \in { "undefined", "null" }
       THEN \* body.email on a missing body
            /\ pc' = [pc EXCEPT ![r] = "failed"]
            /\ resp' = [resp EXCEPT ![r] = Fail(500, "TypeError")]
            /\ UNCHANGED userEmail
       ELSE /\ userEmail' = IF b.f["email"].ty = "string"
                            THEN b.f["email"].s ELSE userEmail
            /\ pc' = [pc EXCEPT ![r] = "done"]
            /\ resp' = [resp EXCEPT ![r] = UserPayload(userEmail')]

StartPut(r) ==
    /\ pc[r] = "idle"
    /\ \E in \in PutInputs : BeginPut(r, in[1], in[2])

\* an update that runs next to another: an alias session, a settings body
StartPutC(r) ==
    /\ pc[r] = "idle"
    /\ \E b \in ConcBodies : BeginPut(r, AliasSession, b)

\* findById resolves; then, without suspending, the pick, the archive-folder
\* check and the set loop, up to the await of save
FindById(r) ==
    /\ pc[r] = "find"
    /\ calls' = [calls EXCEPT ![r] = @ \cup { "find" }]
    /\ before' = [before EXCEPT ![r] = stored]
    /\ UNCHANGED << stored, userEmail, op, session, body, lastSaved >>
    /\ IF ~Exists(session[r].alias_id)
       THEN /\ pc' = [pc EXCEPT ![r] = "failed"]
            /\ resp' = [resp EXCEPT ![r] = Fail(401, "SETTINGS_INVALID_ALIAS_ID")]
            /\ UNCHANGED << doc, modified, sets >>
       ELSE LET updates == pick(body[r].f, ALIAS_SETTINGS_FIELDS)
            IN  IF ArchiveFolderInvalid(updates)
                THEN /\ pc' = [pc EXCEPT ![r] = "failed"]
                     /\ resp' = [resp EXCEPT ![r] =
                                   Fail(400, "SETTINGS_ARCHIVE_FOLDER_INVALID")]
                     /\ doc' = [doc EXCEPT ![r] = stored]
                     /\ UNCHANGED << modified, sets >>
                ELSE /\ pc' = [pc EXCEPT ![r] = "save"]
                     /\ doc' = [doc EXCEPT ![r] = ApplySets(stored, updates)]
                     /\ modified' = [modified EXCEPT ![r] =
                                       ModifiedPaths(stored, updates)]
                     /\ sets' = [sets EXCEPT ![r] = SetKeys(updates)]
                     /\ UNCHANGED resp

\* save() writing before it validates
SaveWriteThenValidate(r) ==
    /\ pc[r] = "save"
    /\ calls' = [calls EXCEPT ![r] = @ \cup { "save" }]
    /\ UNCHANGED << userEmail, op, session, body, doc, modified, before, sets >>
    /\ stored' = Written(stored, doc[r], modified[r])
    /\ lastSaved' = r
    /\ IF ~DocValid(doc[r], modified[r])
       THEN /\ pc' = [pc EXCEPT ![r] = "failed"]
            /\ resp' = [resp EXCEPT ![r] = Fail(400, "ValidationError")]
       ELSE /\ pc' = [pc EXCEPT ![r] = "refetch"]
            /\ UNCHANGED resp

\* save() that does not validate
SaveNoValidate(r) ==
    /\ pc[r] = "save"
    /\ calls' = [calls EXCEPT ![r] = @ \cup { "save" }]
    /\ UNCHANGED << userEmail, op, session, body, doc, modified, before, sets,
                    resp >>
    /\ stored' = Written(stored, doc[r], modified[r])
    /\ lastSaved' = r
    /\ pc' = [pc EXCEPT ![r] = "refetch"]

\* alias.save(): validation of the document, then the write
Save(r) ==
    /\ pc[r] = "save"
    /\ calls' = [calls EXCEPT ![r] = @ \cup { "save" }]
    /\ UNCHANGED << userEmail, op, session, body, doc, modified, before, sets >>
    /\ IF ~DocValid(doc[r], modified[r])
       THEN /\ pc' = [pc EXCEPT ![r] = "failed"]
            /\ resp' = [resp EXCEPT ![r] = Fail(400, "ValidationError")]
            /\ UNCHANGED << stored, lastSaved >>
       ELSE /\ stored' = Written(stored, doc[r], modified[r])
            /\ lastSaved' = r
            /\ pc' = [pc EXCEPT ![r] = "refetch"]
            /\ UNCHANGED resp

\* update(ctx) after the settings update: the lean findById and the payload
Refetch(r) ==
    /\ pc[r] = "refetch"
    /\ calls' = [calls EXCEPT ![r] = @ \cup { "find" }]
    /\ pc' = [pc EXCEPT ![r] = "done"]
    /\ resp' = [resp EXCEPT ![r] = AccountPayload(stored)]
    /\ UNCHANGED << stored, userEmail, op, session, body, doc, modified,
                    before, sets, lastSaved >>

\* ------------------------------------------------------------ retrieve
\* retrieve(ctx), up to the await of findById on an alias session
StartGet(r) ==
    /\ pc[r] = "idle"
    /\ \E s \in Sessions :
         /\ op' = [op EXCEPT ![r] = "GET"]
         /\ session' = [session EXCEPT ![r] = s]
         /\ body' = [body EXCEPT ![r] = NoBody]
         /\ doc' = [doc EXCEPT ![r] = NoFields]
         /\ modified' = [modified EXCEPT ![r] = {}]
         /\ before' = [before EXCEPT ![r] = stored]
         /\ sets' = [sets EXCEPT ![r] = {}]
         /\ calls' = [calls EXCEPT ![r] = {}]
         /\ UNCHANGED << stored, userEmail, lastSaved >>
         /\ IF ~s.db
            THEN /\ pc' = [pc EXCEPT ![r] = "done"]
                 /\ resp' = [resp EXCEPT ![r] = UserPayload(userEmail)]
            ELSE IF ~s.hasUser
            THEN \* ctx.state.user.alias_id on a missing user
                 /\ pc' = [pc EXCEPT ![r] = "failed"]
                 /\ resp' = [resp EXCEPT ![r] = Fail(500, "TypeError")]
            ELSE /\ pc' = [pc EXCEPT ![r] = "getfind"]
                 /\ resp' = [resp EXCEPT ![r] = NoResp]

\* the lean findById of retrieve resolves, and the payload is assembled
GetFind(r) ==
    /\ pc[r] = "getfind"
    /\ calls' = [calls EXCEPT ![r] = @ \cup { "find" }]
    /\ UNCHANGED << stored, userEmail, op, session, body, doc, modified,
                    before, sets, lastSaved >>
    /\ IF session[r].alias_id # "" /\ ~IsValidObjectId(session[r].alias_id)
       THEN \* the query cannot cast the identifier; the boundary picks the status
            /\ pc' = [pc EXCEPT ![r] = "failed"]
            /\ \E st \in { 400, 500 } :
                 resp' = [resp EXCEPT ![r] = Fail(st, "CastError")]
       ELSE IF ~Exists(session[r].alias_id)
       THEN /\ pc' = [pc EXCEPT ![r] = "failed"]
            /\ resp' = [resp EXCEPT ![r] = Fail(404, "ALIAS_DOES_NOT_EXIST")]
       ELSE /\ pc' = [pc EXCEPT ![r] = "done"]
            /\ resp' = [resp EXCEPT ![r] = AccountPayload(stored)]

\* the response is sent and the request's context is dropped
Respond(r) ==
    /\ pc[r] \in { "done", "failed" }
    /\ pc' = [pc EXCEPT ![r] = "idle"]
    /\ op' = [op EXCEPT ![r] = ""]
    /\ session' = [session EXCEPT ![r] = UserSession]
    /\ body' = [body EXCEPT ![r] = NoBody]
    /\ doc' = [doc EXCEPT ![r] = NoFields]
    /\ modified' = [modified EXCEPT ![r] = {}]
    /\ resp' = [resp EXCEPT ![r] = NoResp]
    /\ before' = [before EXCEPT ![r] = stored]
    /\ sets' = [sets EXCEPT ![r] = {}]
    /\ calls' = [calls EXCEPT ![r] = {}]
    /\ UNCHANGED << stored, userEmail, lastSaved >>

\* ------------------------------------------------------------ specifications
\* one request at a time
Next ==
    \E r \in { 1 } :
        \/ StartPut(r)
        \/ StartGet(r)
        \/ FindById(r)
        \/ Save(r)
        \/ Refetch(r)
        \/ GetFind(r)
        \/ Respond(r)

Spec == Init /\ [][Next]_vars

\* two updates of the same alias, interleaved at their suspension points
NextC ==
    \E r \in Reqs :
        \/ StartPutC(r)
        \/ FindById(r)
        \/ Save(r)
        \/ Refetch(r)

SpecC == Init /\ [][NextC]_vars

\* ------------------------------------------------------------ vocabulary
\* the settings fields a body names: present and not undefined
Named(b) == { k \in ALIAS_SETTINGS_FIELDS : b.f[k] \notin { Absent, Undefined } }

\* an update by the alias actor whose alias exists
AliasPut(r) == op[r] = "PUT" /\ pc[r] # "idle" /\ session[r] = AliasSession

\* ... that succeeded
PutOk(r) == AliasPut(r) /\ pc[r] = "done"

\* some named field of the body has an invalid value
HasInvalid(b) == \E k \in Named(b) : ~FieldValid(k, b.f[k])

\* ------------------------------------------------------------ claims
\* C1: after a successful update every settings field the body names has the
\* body's value, falsy values included, in the stored record and in the
\* returned payload, and every other settings field is returned as it was
\* returned before the update.
C1_PartialUpdate ==
    \A r \in Reqs :
        PutOk(r) =>
            \A k \in ALIAS_SETTINGS_FIELDS :
                IF k \in Named(body[r])
                THEN /\ stored[k] = body[r].f[k]
                     /\ resp[r].payload[k] = body[r].f[k]
                ELSE /\ stored[k] = before[r][k]
                     /\ resp[r].payload[k] = serializeAliasSettings(before[r])[k]

C1_Witness ==
    \E r \in Reqs :
        /\ PutOk(r)
        /\ body[r].f["search_body_indexing"] = Bool(FALSE)
        /\ before[r]["search_body_indexing"] = Bool(TRUE)
        /\ body[r].f["mail_archive_folder"] = Null
        /\ before[r]["mail_archive_folder"] = Str("Archive")
        /\ before[r]["appearance_theme"] = Str("dark")
        /\ resp[r].payload["appearance_theme"] = Str("dark")
        /\ resp[r].payload["search_body_indexing"] = Bool(FALSE)

\* C2 as stated: a body with an invalid field fails with a client error, the
\* error is detected before alias.set is called for any field, and the stored
\* record is what it was.
C2_AsClaimed ==
    \A r \in Reqs :
        (AliasPut(r) /\ HasInvalid(body[r])) =>
            /\ pc[r] \notin { "refetch", "done" }
            /\ sets[r] = {}
            /\ stored = before[r]
            /\ pc[r] = "failed" => resp[r].status = 400

\* C2 amended: a body with an invalid field fails with a client error and
\* nothing of it is stored; only a mail_archive_folder type error is detected
\* before alias.set is called, the other errors are detected by save().
C2_AllOrNothing ==
    \A r \in Reqs :
        (AliasPut(r) /\ HasInvalid(body[r])) =>
            /\ pc[r] \notin { "refetch", "done" }
            /\ stored = before[r]
            /\ pc[r] = "failed" => resp[r].status = 400
            /\ ArchiveFolderInvalid(body[r].f) =>
                   sets[r] = {} /\ "save" \notin calls[r]

C2_Witness ==
    \E r \in Reqs :
        /\ AliasPut(r)
        /\ pc[r] = "failed"
        /\ resp[r].error = "ValidationError"
        /\ body[r].f["mail_messages_per_page"] = Num(30)
        /\ body[r].f["appearance_theme"] = Str("dark")
        /\ "appearance_theme" \in sets[r]
        /\ stored["appearance_theme"] = Str("system")

\* C3: a successful update whose label_settings is a map leaves exactly that
\* map stored and returned: its keys and its entries, nothing of the map
\* stored before.
C3_LabelsReplaced ==
    \A r \in Reqs :
        (PutOk(r) /\ body[r].f["label_settings"].ty = "map") =>
            /\ LabelKeys(stored["label_settings"])
                  = LabelKeys(body[r].f["label_settings"])
            /\ stored["label_settings"].e = body[r].f["label_settings"].e
            /\ resp[r].payload["label_settings"].e = body[r].f["label_settings"].e

C3_Witness ==
    \E r \in Reqs :
        /\ PutOk(r)
        /\ before[r]["label_settings"] = LabelsWork2
        /\ body[r].f["label_settings"] = LabelsTeam
        /\ LabelKeys(resp[r].payload["label_settings"]) = { "team" }

\* C4: a read by the alias actor of an alias stored as it was created returns
\* the defaults, and a read of an existing alias never fails.
C4_Defaults ==
    \A r \in Reqs :
        (op[r] = "GET" /\ session[r] = AliasSession) =>
            /\ pc[r] # "failed"
            /\ (pc[r] = "done" /\ stored = FreshAlias) =>
                  /\ resp[r].status = 200
                  /\ resp[r].payload["appearance_theme"] = Str("system")
                  /\ resp[r].payload["appearance_layout_mode"] = Str("personal")
                  /\ resp[r].payload["mail_messages_per_page"] = Num(50)
                  /\ resp[r].payload["mail_archive_folder"] = Null
                  /\ resp[r].payload["search_body_indexing"] = Bool(FALSE)
                  /\ resp[r].payload["label_settings"] = Map({})
                  /\ resp[r].payload["shortcuts"] = Map({})
                  /\ resp[r].payload["aliases_defaults"] = Map({})

C4_Witness ==
    \E r \in Reqs :
        /\ op[r] = "GET"
        /\ session[r] = AliasSession
        /\ pc[r] = "done"
        /\ stored = FreshAlias
        /\ stored["label_settings"] = Absent
        /\ resp[r].payload["label_settings"] = Map({})

\* C5: a key that is no settings field is never set, stored or returned, and
\* an update that carries one fails only for what its settings fields or its
\* alias are; when it succeeds the settings fields it does not name are kept.
C5_UnknownIgnored ==
    \A r \in Reqs :
        /\ \A u \in UnknownKeys : stored[u] = Absent /\ doc[r][u] = Absent
        /\ (AliasPut(r) /\ BodyKeys(body[r]) \cap UnknownKeys # {}) =>
              /\ sets[r] \cap UnknownKeys = {}
              /\ pc[r] = "failed" => HasInvalid(body[r])
              /\ pc[r] = "done" =>
                    /\ \A u \in UnknownKeys : resp[r].payload[u] = Absent
                    /\ \A k \in Named(body[r]) : stored[k] = body[r].f[k]
                    /\ \A k \in ALIAS_SETTINGS_FIELDS \ Named(body[r]) :
                          stored[k] = before[r][k]

C5_Witness ==
    \E r \in Reqs :
        /\ PutOk(r)
        /\ body[r].f["email"] = Str("new@example.com")
        /\ body[r].f["appearance_theme"] = Str("dark")
        /\ before[r]["appearance_theme"] = Str("system")
        /\ stored["appearance_theme"] = Str("dark")

\* C6: an update with mail_messages_per_page = 30 never succeeds, fails with
\* status 400 and leaves the stored page size; with 50 or 100 it fails only
\* for another field and, when it succeeds, the value is stored.
C6_PageSize ==
    \A r \in Reqs :
        AliasPut(r) =>
            LET v == body[r].f["mail_messages_per_page"]
            IN  /\ v = Num(30) =>
                    /\ pc[r] \notin { "refetch", "done" }
                    /\ pc[r] = "failed" => resp[r].status = 400
                    /\ stored["mail_messages_per_page"]
                          = before[r]["mail_messages_per_page"]
                /\ v \in { Num(50), Num(100) } =>
                    /\ pc[r] = "failed" =>
                          \E k \in Named(body[r]) \ { "mail_messages_per_page" } :
                              ~FieldValid(k, body[r].f[k])
                    /\ pc[r] = "done" =>
                          /\ stored["mail_messages_per_page"] = v
                          /\ resp[r].payload["mail_messages_per_page"] = v

C6_Witness ==
    \E r \in Reqs :
        /\ AliasPut(r)
        /\ pc[r] = "failed"
        /\ resp[r].status = 400
        /\ body[r].f["mail_messages_per_page"] = Num(30)
        /\ Named(body[r]) = { "mail_messages_per_page" }
        /\ stored["mail_messages_per_page"] = Num(100)

\* C7: an update whose mail_archive_folder is a number fails with status 400
\* before alias.set or save is called; a string or null fails only for another
\* field and, when the update succeeds, is stored.
C7_ArchiveFolder ==
    \A r \in Reqs :
        AliasPut(r) =>
            LET v == body[r].f["mail_archive_folder"]
            IN  /\ v.ty = "number" =>
                    /\ pc[r] \in { "find", "failed" }
                    /\ sets[r] = {}
                    /\ "save" \notin calls[r]
                    /\ stored = before[r]
                    /\ pc[r] = "failed" =>
                          /\ resp[r].status = 400
                          /\ resp[r].error = "SETTINGS_ARCHIVE_FOLDER_INVALID"
                /\ v.ty \in { "string", "null" } =>
                    /\ pc[r] = "failed" =>
                          \E k \in Named(body[r]) \ { "mail_archive_folder" } :
                              ~FieldValid(k, body[r].f[k])
                    /\ pc[r] = "done" =>
                          /\ stored["mail_archive_folder"] = v
                          /\ resp[r].payload["mail_archive_folder"] = v

C7_Witness ==
    \E r \in Reqs :
        /\ AliasPut(r)
        /\ pc[r] = "failed"
        /\ resp[r].error = "SETTINGS_ARCHIVE_FOLDER_INVALID"
        /\ body[r].f["mail_archive_folder"] = Num(12345)
        /\ body[r].f["appearance_theme"] = Str("dark")
        /\ sets[r] = {}
        /\ stored["appearance_theme"] = Str("system")

\* C8 as stated: on an alias session, GET and PUT alike fail with
\* SETTINGS_ALIAS_AUTH_REQUIRED when no alias identity is attached and with
\* SETTINGS_INVALID_ALIAS_ID when the identifier is malformed, in both cases
\* before any persistence call.
C8_AsClaimed ==
    \A r \in Reqs :
        (op[r] \in { "GET", "PUT" } /\ pc[r] # "idle" /\ session[r].db
            /\ getAliasContext(session[r]) # "") =>
            /\ pc[r] = "failed"
            /\ resp[r].status = 401
            /\ resp[r].error = getAliasContext(session[r])
            /\ calls[r] = {}

\* C9 as stated: an update by the alias actor whose body is a string, a
\* number, a boolean or an array, falsy ones included, fails with
\* INVALID_REQUEST_BODY and the alias is neither set nor saved.
C9_AsClaimed ==
    \A r \in Reqs :
        (AliasPut(r) /\ body[r].ty \in { "string", "number", "boolean", "array" }) =>
            /\ pc[r] = "failed"
            /\ resp[r].status = 400
            /\ resp[r].error = "INVALID_REQUEST_BODY"
            /\ sets[r] = {}
            /\ "save" \notin calls[r]

\* both interleaved updates succeeded
BothDone == \A r \in Reqs : PutOk(r)

Other(r) == CHOOSE q \in Reqs : q # r

\* C10 as stated: after both updates a field only one body names has that
\* body's value, and a field both name has the value of the update whose save
\* completed last.
C10_AsClaimed ==
    BothDone =>
        \A k \in ALIAS_SETTINGS_FIELDS :
            /\ \A r \in Reqs :
                 (k \in Named(body[r]) /\ k \notin Named(body[Other(r)])) =>
                     stored[k] = body[r].f[k]
            /\ (\A r \in Reqs : k \in Named(body[r])) =>
                     stored[k] = body[lastSaved].f[k]

\* C10 amended: a field only one body names has that body's value; a field
\* both name has the value of the update whose save completed last when that
\* value differs from the one the update read at findById, and otherwise the
\* value of one of the two.
C10_LastWriter ==
    BothDone =>
        \A k \in ALIAS_SETTINGS_FIELDS :
            /\ \A r \in Reqs :
                 (k \in Named(body[r]) /\ k \notin Named(body[Other(r)])) =>
                     stored[k] = body[r].f[k]
            /\ (\A r \in Reqs : k \in Named(body[r])) =>
                     IF body[lastSaved].f[k] # before[lastSaved][k]
                     THEN stored[k] = body[lastSaved].f[k]
                     ELSE stored[k] \in { body[r].f[k] : r \in Reqs }

C10_Witness ==
    /\ BothDone
    /\ before[1] = FreshAlias
    /\ before[2] = FreshAlias
    /\ body[1].f["search_body_indexing"] = Bool(TRUE)
    /\ body[2].f["search_body_indexing"] = Bool(FALSE)
    /\ body[1].f["appearance_theme"] = Str("dark")
    /\ body[2].f["appearance_theme"] = Absent
    /\ lastSaved = 2
    /\ stored["search_body_indexing"] = Bool(TRUE)
    /\ stored["appearance_theme"] = Str("dark")

====
